---- MODULE Spec2Model ----
(***************************************************************************)
(* Model of the Secure AI Agent (src/main.py): the single-instance         *)
(* launcher, the SecureAICore service loop (start_tor, security_scan,      *)
(* run), the tray handlers of SecureAIGUI that touch the core, and the     *)
(* command-line entry cli_main.                                            *)
(*                                                                         *)
(* Several agent processes may be launched on one host.  Each process has  *)
(* a main thread and, in graphical mode, a daemon thread that runs the     *)
(* service loop of the GUI's core.  When the graphical interface fails the *)
(* launcher falls back to cli_main, which builds a second core and runs    *)
(* its loop on the main thread.                                            *)
(***************************************************************************)
EXTENDS Integers, Sequences, FiniteSets, TLC

\* ------------------------------------------------------------------ bounds
NumProcs == 2      \* agent processes launched on the host
MaxLen == 3        \* entries in one process enumeration
MaxDemandLen == 2  \* entries in the enumeration of one scan made on demand

\* ------------------------------------------------------- program constants
CPU_THRESHOLD == 90

Procs == 1..NumProcs
Cores == {"gui", "cli"}     \* gui.core (SecureAIGUI.__init__) and cli_main's core

VARIABLES
  caps,         \* module flags AI_READY, TOR_READY, GUI_READY of the installation
  bound,        \* processes whose socket is bound to 127.0.0.1:65432
  main,         \* position of each process's main thread
  cliArg,       \* '--cli' in sys.argv
  exitCode,     \* process exit status, -1 while none
  iface,        \* interfaces the launcher has entered, in order
  loop,         \* position of each core's run()
  running,      \* core.running
  tor_process,  \* core.tor_process: "None" or "handle"
  relay,        \* the relay process a core launched: "none", "alive", "dead"
  torResult,    \* what start_tor returned: "none" before it returns
  threats,      \* run()'s local `threats` in the iteration under way, else <<>>
  warned,       \* findings logged at warning level by that iteration
  scanErr,      \* "Scan failed" logged by that iteration's scan
  graceful,     \* "Agent stopped gracefully" logged
  stopAt,       \* where run() was when clean_exit cleared running
  scanAfterStop,\* a scan was begun after clean_exit cleared running
  shown,        \* last status notification of each process
  snapshot,     \* what that iteration's scan enumerated (kept under SpecScan only)
  analysis,     \* the last call of ai_analyze: its input, what it used, its answer
  renewal,      \* the last renew_tor: what happened and the notification shown
  demand,       \* the notification of the last on-demand scan (run_scan)
  spc,          \* position of each security_scan call followed entry by entry
  seen,         \* the entries that call's enumeration has yielded so far
  collected,    \* that call's local list `threats`
  returned      \* what that call returned, <<>> before it returns

\* what the handlers and calls answer; kept under SpecApi and SpecInterleave only
obs == <<analysis, renewal, demand, spc, seen, collected, returned>>

vars == <<caps, bound, main, cliArg, exitCode, iface, loop, running,
          tor_process, relay, torResult, threats, warned, scanErr, graceful,
          stopAt, scanAfterStop, shown, snapshot, obs>>

\* ------------------------------------------------------------ Threat scanner
\* One entry of psutil.process_iter.  kind says what inspecting it does:
\*   "ok"     proc.info is read and compared with the threshold
\*   "denied" psutil.AccessDenied is raised
\*   "gone"   psutil.NoSuchProcess is raised
\*   "error"  any other exception is raised at this point of the enumeration
CpuValues == {10, 90, 95}
Kinds == {"ok", "denied", "gone", "error"}
Readings == {[cpu |-> c, kind |-> "ok"] : c \in CpuValues}
              \cup {[cpu |-> 0, kind |-> k] : k \in Kinds \ {"ok"}}

NameOf(i) == IF i % 2 = 1 THEN "python" ELSE "tor"

Entry(i, r) == [pid |-> i, name |-> NameOf(i), cpu |-> r.cpu, kind |-> r.kind]

ProcessLists ==
  UNION {{[i \in 1..n |-> Entry(i, r[i])] : r \in [1..n -> Readings]} : n \in 0..MaxLen}

\* f"High CPU: {info['name']} (PID: {info['pid']})"
Finding(e) == [msg |-> "High CPU", name |-> e.name, pid |-> e.pid]

NoThreats == [msg |-> "No immediate threats detected", name |-> "", pid |-> 0]

FlaggedAtThreshold(cpu) == cpu >= CPU_THRESHOLD

\* info['cpu_percent'] > 90
Flagged(cpu) == cpu > CPU_THRESHOLD

SkippedOnlyGone(kind) == kind = "gone"

\* except (psutil.NoSuchProcess, psutil.AccessDenied): continue
Skipped(kind) == kind \in {"denied", "gone"}

OnScanErrorSilent(found) == [threats |-> found, failed |-> FALSE]

\* except Exception as e: self.logger.error(f"Scan failed: ...")
OnScanError(found) == [threats |-> found, failed |-> TRUE]

\* the for loop of security_scan from entry i on, `found` collected so far
RECURSIVE ScanFrom(_, _, _)
ScanFrom(procs, i, found) ==
  IF i > Len(procs) THEN [threats |-> found, failed |-> FALSE]
  ELSE LET e == procs[i] IN
       IF Skipped(e.kind) THEN ScanFrom(procs, i + 1, found)
       ELSE IF e.kind # "ok" THEN OnScanError(found)
       ELSE ScanFrom(procs, i + 1,
                     IF Flagged(e.cpu) THEN Append(found, Finding(e)) ELSE found)

\* return threats if threats else ["No immediate threats detected"]
ScanReturn(found) == IF found # <<>> THEN found ELSE <<NoThreats>>

security_scan(procs) ==
  LET r == ScanFrom(procs, 1, <<>>)
  IN [result |-> ScanReturn(r.threats), logged |-> r.failed]

\* ------------------------------------------------------------------- state
ActiveLoop == {"start_tor", "check", "scan", "sleep"}

Set2(f, p, k, v) == [f EXCEPT ![p][k] = v]

PerCore(v) == [p \in Procs |-> [k \in Cores |-> v]]

\* the two callers of security_scan: run() on its thread, run_scan on the GUI's
Scanners == {"loop", "demand"}

NoAnalysis ==
  [called |-> FALSE, text |-> "", outcome |-> "none", status |-> "none",
   message |-> "", backend |-> "none", logged |-> FALSE]

NoRenewal ==
  [called |-> FALSE, connected |-> FALSE, authenticated |-> FALSE,
   deliverable |-> FALSE, sent |-> FALSE, title |-> "", message |-> ""]

ObsInit ==
  /\ analysis = NoAnalysis
  /\ renewal = NoRenewal
  /\ demand = <<>>
  /\ spc = [s \in Scanners |-> "idle"]
  /\ seen = [s \in Scanners |-> <<>>]
  /\ collected = [s \in Scanners |-> <<>>]
  /\ returned = [s \in Scanners |-> <<>>]

Init ==
  /\ caps \in [ai : BOOLEAN, tor : BOOLEAN, gui : BOOLEAN]
  /\ bound = {}
  /\ main = [p \in Procs |-> "off"]
  /\ cliArg = [p \in Procs |-> FALSE]
  /\ exitCode = [p \in Procs |-> -1]
  /\ iface = [p \in Procs |-> <<>>]
  /\ loop = PerCore("none")
  /\ running = PerCore(FALSE)
  /\ tor_process = PerCore("None")
  /\ relay = PerCore("none")
  /\ torResult = PerCore("none")
  /\ threats = PerCore(<<>>)
  /\ warned = PerCore(<<>>)
  /\ scanErr = PerCore(FALSE)
  /\ graceful = PerCore(FALSE)
  /\ stopAt = PerCore("none")
  /\ scanAfterStop = PerCore(FALSE)
  /\ shown = [p \in Procs |-> <<>>]
  /\ snapshot = <<>>
  /\ ObsInit

\* ---------------------------------------------------------------- launcher
\* The process ends: the OS closes its socket, its threads (the daemon thread of
\* the GUI's core among them) end where they are, and its objects are gone.  Only
\* the exit status and any relay process it launched outlive it.
ProcessExit(p, code) ==
  /\ main' = [main EXCEPT ![p] = "exited"]
  /\ exitCode' = [exitCode EXCEPT ![p] = code]
  /\ bound' = bound \ {p}
  /\ cliArg' = [cliArg EXCEPT ![p] = FALSE]
  /\ iface' = [iface EXCEPT ![p] = <<>>]
  /\ loop' = [loop EXCEPT ![p] = [k \in Cores |-> "none"]]
  /\ running' = [running EXCEPT ![p] = [k \in Cores |-> FALSE]]
  /\ tor_process' = [tor_process EXCEPT ![p] = [k \in Cores |-> "None"]]
  /\ torResult' = [torResult EXCEPT ![p] = [k \in Cores |-> "none"]]
  /\ threats' = [threats EXCEPT ![p] = [k \in Cores |-> <<>>]]
  /\ warned' = [warned EXCEPT ![p] = [k \in Cores |-> <<>>]]
  /\ scanErr' = [scanErr EXCEPT ![p] = [k \in Cores |-> FALSE]]
  /\ graceful' = [graceful EXCEPT ![p] = [k \in Cores |-> FALSE]]
  /\ stopAt' = [stopAt EXCEPT ![p] = [k \in Cores |-> "none"]]
  /\ scanAfterStop' = [scanAfterStop EXCEPT ![p] = [k \in Cores |-> FALSE]]
  /\ shown' = [shown EXCEPT ![p] = <<>>]
  /\ snapshot' = <<>>
  /\ UNCHANGED <<obs, caps, relay>>

\* python main.py [--cli]; the processes are launched in the order of their numbers
Launch(p, cli) ==
  /\ main[p] = "off"
  /\ \A q \in Procs : q < p => main[q] # "off"
  /\ main' = [main EXCEPT ![p] = "bind"]
  /\ cliArg' = [cliArg EXCEPT ![p] = cli]
  /\ UNCHANGED <<obs, caps, bound, exitCode, iface, loop, running, tor_process, relay,
                 torResult, threats, warned, scanErr, graceful, stopAt,
                 scanAfterStop, shown, snapshot>>

AddressNeverInUse(p) == FALSE

\* sock.bind(('127.0.0.1', 65432)) raises socket.error: the endpoint is taken
AddressInUse(p) == bound \ {p} # {}

BindIgnoresFailure(p) ==
  /\ main[p] = "bind"
  /\ main' = [main EXCEPT ![p] = "select"]
  /\ bound' = IF AddressInUse(p) THEN bound ELSE bound \cup {p}
  /\ UNCHANGED <<obs, caps, cliArg, exitCode, iface, loop, running, tor_process, relay,
                 torResult, threats, warned, scanErr, graceful, stopAt,
                 scanAfterStop, shown, snapshot>>

\* the single-instance check: bind, or print the error and sys.exit(1)
Bind(p) ==
  /\ main[p] = "bind"
  /\ IF AddressInUse(p)
       THEN ProcessExit(p, 1)
       ELSE /\ bound' = bound \cup {p}
            /\ main' = [main EXCEPT ![p] = "select"]
            /\ UNCHANGED <<obs, caps, cliArg, exitCode, iface, loop, running,
                           tor_process, relay, torResult, threats, warned, scanErr,
                           graceful, stopAt, scanAfterStop, shown, snapshot>>

SelectWithoutFallback(p) ==
  /\ main[p] = "select"
  /\ IF caps.gui /\ ~cliArg[p]
       THEN /\ main' = [main EXCEPT ![p] = "gui_init"]
            /\ iface' = [iface EXCEPT ![p] = Append(@, "gui")]
            /\ UNCHANGED <<obs, caps, bound, cliArg, exitCode, loop, running,
                           tor_process, relay, torResult, threats, warned, scanErr,
                           graceful, stopAt, scanAfterStop, shown, snapshot>>
       ELSE IF cliArg[p]
         THEN /\ main' = [main EXCEPT ![p] = "cli_main"]
              /\ UNCHANGED <<obs, caps, bound, cliArg, exitCode, iface, loop, running,
                             tor_process, relay, torResult, threats, warned, scanErr,
                             graceful, stopAt, scanAfterStop, shown, snapshot>>
         ELSE ProcessExit(p, 1)

\* if GUI_READY and '--cli' not in sys.argv: ... else: cli_main()
Select(p) ==
  /\ main[p] = "select"
  /\ IF caps.gui /\ ~cliArg[p]
       THEN /\ main' = [main EXCEPT ![p] = "gui_init"]
            /\ iface' = [iface EXCEPT ![p] = Append(@, "gui")]
       ELSE /\ main' = [main EXCEPT ![p] = "cli_main"]
            /\ UNCHANGED iface
  /\ UNCHANGED <<obs, caps, bound, cliArg, exitCode, loop, running, tor_process, relay,
                 torResult, threats, warned, scanErr, graceful, stopAt,
                 scanAfterStop, shown, snapshot>>

\* SecureAICore.__init__: running = True, tor_process = None; run() is entered
NewCore(p, k) ==
  /\ running' = Set2(running, p, k, TRUE)
  /\ tor_process' = Set2(tor_process, p, k, "None")
  /\ loop' = Set2(loop, p, k, "start_tor")

\* gui = SecureAIGUI(): the core is built and setup_tray starts core.run on a
\* daemon thread; the main thread goes on to gui.app.exec_()
GuiInit(p) ==
  /\ main[p] = "gui_init"
  /\ NewCore(p, "gui")
  /\ main' = [main EXCEPT ![p] = "gui_exec"]
  /\ UNCHANGED <<obs, caps, bound, cliArg, exitCode, iface, relay, torResult, threats,
                 warned, scanErr, graceful, stopAt, scanAfterStop, shown, snapshot>>

\* SecureAIGUI() raises before the thread is started: except Exception -> cli_main()
GuiInitFails(p) ==
  /\ main[p] = "gui_init"
  /\ main' = [main EXCEPT ![p] = "cli_main"]
  /\ UNCHANGED <<obs, caps, bound, cliArg, exitCode, iface, loop, running, tor_process,
                 relay, torResult, threats, warned, scanErr, graceful, stopAt,
                 scanAfterStop, shown, snapshot>>

\* gui.app.exec_() raises: except Exception -> cli_main(), the daemon thread lives on
GuiExecFails(p) ==
  /\ main[p] = "gui_exec"
  /\ main' = [main EXCEPT ![p] = "cli_main"]
  /\ UNCHANGED <<obs, caps, bound, cliArg, exitCode, iface, loop, running, tor_process,
                 relay, torResult, threats, warned, scanErr, graceful, stopAt,
                 scanAfterStop, shown, snapshot>>

\* cli_main: core = SecureAICore(); core.run() on the main thread
CliMain(p) ==
  /\ main[p] = "cli_main"
  /\ NewCore(p, "cli")
  /\ main' = [main EXCEPT ![p] = "cli_run"]
  /\ iface' = [iface EXCEPT ![p] = Append(@, "cli")]
  /\ UNCHANGED <<obs, caps, bound, cliArg, exitCode, relay, torResult, threats, warned,
                 scanErr, graceful, stopAt, scanAfterStop, shown, snapshot>>

\* core.run() returned or let KeyboardInterrupt through: cli_main prints and
\* returns, the script ends
CliReturn(p) ==
  /\ main[p] = "cli_run"
  /\ loop[p]["cli"] \in {"done", "raised"}
  /\ ProcessExit(p, 0)

\* ------------------------------------------------------------ SecureAICore
\* The thread that executes core k of process p is alive.
ThreadAlive(p, k) ==
  IF k = "cli" THEN main[p] = "cli_run" ELSE main[p] \notin {"off", "exited"}

StartTorKeepsHandleOnFailure(p, k) ==
  /\ loop[p][k] = "start_tor"
  /\ ThreadAlive(p, k)
  /\ \E launched \in BOOLEAN :
       /\ torResult' = Set2(torResult, p, k,
                            IF ~caps.tor THEN "unavailable"
                            ELSE IF launched THEN "ok" ELSE "failed")
       /\ tor_process' = Set2(tor_process, p, k, IF caps.tor THEN "handle" ELSE "None")
       /\ relay' = Set2(relay, p, k, IF caps.tor /\ launched THEN "alive" ELSE "none")
  /\ loop' = Set2(loop, p, k, "check")
  /\ UNCHANGED <<obs, caps, bound, main, cliArg, exitCode, iface, running, threats,
                 warned, scanErr, graceful, stopAt, scanAfterStop, shown, snapshot>>

\* start_tor, called once by run() before the loop.  Without the stem library it
\* warns and returns False; otherwise launch_tor_with_config either returns the
\* relay's handle, which is stored, or raises (timeout, launch failure), which is
\* logged and answered with False.
StartTor(p, k) ==
  /\ loop[p][k] = "start_tor"
  /\ ThreadAlive(p, k)
  /\ IF ~caps.tor
       THEN /\ torResult' = Set2(torResult, p, k, "unavailable")
            /\ UNCHANGED <<tor_process, relay>>
       ELSE \E launched \in BOOLEAN :
              IF launched
                THEN /\ tor_process' = Set2(tor_process, p, k, "handle")
                     /\ relay' = Set2(relay, p, k, "alive")
                     /\ torResult' = Set2(torResult, p, k, "ok")
                ELSE /\ torResult' = Set2(torResult, p, k, "failed")
                     /\ UNCHANGED <<tor_process, relay>>
  /\ loop' = Set2(loop, p, k, "check")
  /\ UNCHANGED <<obs, caps, bound, main, cliArg, exitCode, iface, running, threats,
                 warned, scanErr, graceful, stopAt, scanAfterStop, shown, snapshot>>

CheckRetriesStart(p, k) ==
  /\ loop[p][k] = "check"
  /\ ThreadAlive(p, k)
  /\ IF running[p][k]
       THEN /\ loop' = Set2(loop, p, k,
                            IF torResult[p][k] = "failed" THEN "start_tor" ELSE "scan")
            /\ scanAfterStop' = Set2(scanAfterStop, p, k,
                                     scanAfterStop[p][k] \/ stopAt[p][k] # "none")
            /\ UNCHANGED graceful
       ELSE /\ loop' = Set2(loop, p, k, "done")
            /\ graceful' = Set2(graceful, p, k, TRUE)
            /\ UNCHANGED scanAfterStop
  /\ UNCHANGED <<obs, caps, bound, main, cliArg, exitCode, iface, running, tor_process,
                 relay, torResult, threats, warned, scanErr, stopAt, shown, snapshot>>

\* while self.running: ... ; self.logger.info("Agent stopped gracefully")
Check(p, k) ==
  /\ loop[p][k] = "check"
  /\ ThreadAlive(p, k)
  /\ IF running[p][k]
       THEN /\ loop' = Set2(loop, p, k, "scan")
            /\ scanAfterStop' = Set2(scanAfterStop, p, k,
                                     scanAfterStop[p][k] \/ stopAt[p][k] # "none")
            /\ UNCHANGED graceful
       ELSE /\ loop' = Set2(loop, p, k, "done")
            /\ graceful' = Set2(graceful, p, k, TRUE)
            /\ UNCHANGED scanAfterStop
  /\ UNCHANGED <<obs, caps, bound, main, cliArg, exitCode, iface, running, tor_process,
                 relay, torResult, threats, warned, scanErr, stopAt, shown, snapshot>>

\* if len(threats) > 1:  # More than just "No threats" message
Significant(found) == Len(found) > 1

\* The data of one loop iteration over the enumeration procs:
\* threats = self.security_scan(), then the warning when it is significant.
IterationData(p, k, procs) ==
  LET s == security_scan(procs) IN
    /\ threats' = Set2(threats, p, k, s.result)
    /\ scanErr' = Set2(scanErr, p, k, s.logged)
    /\ warned' = Set2(warned, p, k, IF Significant(s.result) THEN s.result ELSE <<>>)

\* The control of one loop iteration: security_scan never raises an Exception
\* into run(), so the iteration always arrives at time.sleep(60).
IterationStep(p, k) ==
  /\ loop[p][k] = "scan"
  /\ ThreadAlive(p, k)
  /\ loop' = Set2(loop, p, k, "sleep")
  /\ UNCHANGED <<obs, caps, bound, main, cliArg, exitCode, iface, running, tor_process,
                 relay, torResult, graceful, stopAt, scanAfterStop, shown>>

\* one iteration of the service loop; what it enumerated, found and logged is
\* not kept (the log and the local variable do not feed back into the program)
Scan(p, k) ==
  /\ IterationStep(p, k)
  /\ UNCHANGED <<threats, warned, scanErr, snapshot>>

\* the same iteration with its enumeration, its result and its log entries kept
RecordedScan(p, k) ==
  /\ IterationStep(p, k)
  /\ \E procs \in ProcessLists : IterationData(p, k, procs) /\ snapshot' = procs

WakeRearms(p, k) ==
  /\ loop[p][k] = "sleep"
  /\ ThreadAlive(p, k)
  /\ loop' = Set2(loop, p, k, "check")
  /\ running' = Set2(running, p, k, TRUE)
  /\ threats' = Set2(threats, p, k, <<>>)
  /\ warned' = Set2(warned, p, k, <<>>)
  /\ scanErr' = Set2(scanErr, p, k, FALSE)
  /\ snapshot' = <<>>
  /\ UNCHANGED <<obs, caps, bound, main, cliArg, exitCode, iface, tor_process,
                 relay, torResult, graceful, stopAt, scanAfterStop, shown>>

\* time.sleep(60) returns: the iteration is over
Wake(p, k) ==
  /\ loop[p][k] = "sleep"
  /\ ThreadAlive(p, k)
  /\ loop' = Set2(loop, p, k, "check")
  /\ threats' = Set2(threats, p, k, <<>>)
  /\ warned' = Set2(warned, p, k, <<>>)
  /\ scanErr' = Set2(scanErr, p, k, FALSE)
  /\ snapshot' = <<>>
  /\ UNCHANGED <<obs, caps, bound, main, cliArg, exitCode, iface, running, tor_process,
                 relay, torResult, graceful, stopAt, scanAfterStop, shown>>

\* Ctrl+C reaches the main thread while cli_main is inside core.run().  Inside
\* the loop's try (scan, sleep) it is caught: running = False and the while
\* condition is evaluated next.  Anywhere else in run() it leaves run(), and
\* cli_main catches it.
KeyboardInterrupt(p) ==
  /\ main[p] = "cli_run"
  /\ loop[p]["cli"] \in ActiveLoop
  /\ IF loop[p]["cli"] \in {"scan", "sleep"}
       THEN /\ running' = Set2(running, p, "cli", FALSE)
            /\ loop' = Set2(loop, p, "cli", "check")
       ELSE /\ loop' = Set2(loop, p, "cli", "raised")
            /\ UNCHANGED running
  /\ UNCHANGED <<obs, caps, bound, main, cliArg, exitCode, iface, tor_process, relay,
                 torResult, threats, warned, scanErr, graceful, stopAt,
                 scanAfterStop, shown, snapshot>>

\* The relay process ends on its own (crash, kill): nothing in the agent sees it.
RelayDies(p, k) ==
  /\ relay[p][k] = "alive"
  /\ relay' = Set2(relay, p, k, "dead")
  /\ UNCHANGED <<obs, caps, bound, main, cliArg, exitCode, iface, loop, running,
                 tor_process, torResult, threats, warned, scanErr, graceful, stopAt,
                 scanAfterStop, shown, snapshot>>

\* ------------------------------------------------------------- SecureAIGUI
\* f"TOR: {'Active' if self.core.tor_process else 'Inactive'}"
TorStatus(p, k) == IF tor_process[p][k] # "None" THEN "Active" ELSE "Inactive"

\* f"AI: {'Ready' if AI_READY else 'Unavailable'}"
AiStatus == IF caps.ai THEN "Ready" ELSE "Unavailable"

\* show_status: the three status lines
ShowStatus(p) ==
  /\ main[p] = "gui_exec"
  /\ shown' = [shown EXCEPT ![p] =
                 << IF running[p]["gui"] THEN "Running" ELSE "Stopped",
                    TorStatus(p, "gui"),
                    AiStatus >>]
  /\ UNCHANGED <<obs, caps, bound, main, cliArg, exitCode, iface, loop, running,
                 tor_process, relay, torResult, threats, warned, scanErr, graceful,
                 stopAt, scanAfterStop, snapshot>>

\* clean_exit: self.core.running = False; self.app.quit()
CleanExit(p) ==
  /\ main[p] = "gui_exec"
  /\ running' = Set2(running, p, "gui", FALSE)
  /\ stopAt' = Set2(stopAt, p, "gui", loop[p]["gui"])
  /\ main' = [main EXCEPT ![p] = "gui_quit"]
  /\ UNCHANGED <<obs, caps, bound, cliArg, exitCode, iface, loop, tor_process, relay,
                 torResult, threats, warned, scanErr, graceful, scanAfterStop, shown,
                 snapshot>>

\* exec_() returns 0 after quit(): sys.exit(0) without joining the daemon thread
GuiExit(p) ==
  /\ main[p] = "gui_quit"
  /\ ProcessExit(p, 0)

\* ------------------------------------------------ handlers that only answer
\* everything but the answers of the handlers and calls below
prog == <<caps, bound, main, cliArg, exitCode, iface, loop, running, tor_process,
          relay, torResult, threats, warned, scanErr, graceful, stopAt,
          scanAfterStop, shown, snapshot>>

\* no answer is being held
Quiet == analysis = NoAnalysis /\ renewal = NoRenewal /\ demand = <<>>

\* The answer of a handler or call is a local of its caller: one is held at a
\* time, until the caller returns.
Answer(a, r, d) ==
  /\ Quiet
  /\ analysis' = a
  /\ renewal' = r
  /\ demand' = d
  /\ UNCHANGED <<prog, spc, seen, collected, returned>>

\* the handler or caller returns and its locals are gone
Forget ==
  /\ ~Quiet
  /\ analysis' = NoAnalysis
  /\ renewal' = NoRenewal
  /\ demand' = <<>>
  /\ UNCHANGED <<prog, spc, seen, collected, returned>>

\* texts typed into the dialog, and what the classification backend does
Texts == {"", "free bitcoin"}
BackendOutcomes == {"construct_fails", "call_fails", "LABEL_0", "LABEL_1"}

\* str(e) of the exception the backend raised
Cause(o) ==
  IF o = "construct_fails" THEN "model could not be loaded" ELSE "inference failed"

ai_analyze_unguarded(text, o) ==
  IF o \in {"construct_fails", "call_fails"}
    THEN [status |-> "error", message |-> Cause(o),
          backend |-> IF o = "construct_fails" THEN "pipeline" ELSE "analyzer",
          logged |-> TRUE]
    ELSE [status |-> "result", message |-> o, backend |-> "analyzer",
          logged |-> FALSE]

ai_analyze_generic_error(text, o) ==
  IF ~caps.ai \/ o \in {"construct_fails", "call_fails"}
    THEN [status |-> "error", message |-> "AI engine not available",
          backend |-> IF ~caps.ai THEN "none"
                      ELSE IF o = "construct_fails" THEN "pipeline" ELSE "analyzer",
          logged |-> caps.ai]
    ELSE [status |-> "result", message |-> o, backend |-> "analyzer",
          logged |-> FALSE]

\* ai_analyze(text): without the transformers library the fixed error dict and
\* nothing else; otherwise pipeline(...) is built and called, and an exception
\* of either step is logged and answered with an error dict carrying str(e).
\* backend is the last backend operation the call reached.
ai_analyze(text, o) ==
  IF ~caps.ai
    THEN [status |-> "error", message |-> "AI engine not available",
          backend |-> "none", logged |-> FALSE]
  ELSE IF o = "construct_fails"
    THEN [status |-> "error", message |-> Cause(o), backend |-> "pipeline",
          logged |-> TRUE]
  ELSE IF o = "call_fails"
    THEN [status |-> "error", message |-> Cause(o), backend |-> "analyzer",
          logged |-> TRUE]
  ELSE [status |-> "result", message |-> o, backend |-> "analyzer",
        logged |-> FALSE]

AnalysisOf(text, o) ==
  LET r == ai_analyze(text, o)
  IN [called |-> TRUE, text |-> text, outcome |-> o, status |-> r.status,
      message |-> r.message, backend |-> r.backend, logged |-> r.logged]

\* the "AI Analysis" menu item exists only with AI_READY (setup_tray)
AnalysisMenu(p) == main[p] = "gui_exec" /\ caps.ai

\* run_analysis: neither the dialog nor ai_analyze touches the core's fields
RunAnalysis(p) ==
  /\ AnalysisMenu(p)
  /\ UNCHANGED vars

\* run_analysis with its answer kept: if ok and text: result = ai_analyze(text)
RecordedAnalysis(p) ==
  /\ AnalysisMenu(p)
  /\ \E ok \in BOOLEAN, text \in Texts, o \in BackendOutcomes :
       IF ok /\ text # ""
         THEN Answer(AnalysisOf(text, o), NoRenewal, <<>>)
         ELSE UNCHANGED vars

\* ai_analyze called on an existing core by any caller, with its answer kept
DirectAnalyze(p, k) ==
  /\ main[p] \notin {"off", "exited"}
  /\ loop[p][k] # "none"
  /\ \E text \in Texts, o \in BackendOutcomes :
       Answer(AnalysisOf(text, o), NoRenewal, <<>>)

\* The launcher's imports bind stem and Controller only: the name Signal, which
\* renew_tor evaluates as the argument of ctrl.signal, is bound nowhere.
SignalImported == FALSE

\* A relay launched by an agent listens on the control port 9051.
RelayListening == \E p \in Procs, k \in Cores : relay[p][k] = "alive"

\* renew_tor: connect to port 9051, authenticate, evaluate Signal.NEWNYM, send
\* it; any exception on the way is answered with the Error notification.
renew_tor(connected, authenticated, deliverable) ==
  LET failed(why) == [sent |-> FALSE, title |-> "Error", message |-> why] IN
  IF ~connected THEN failed("connection refused")
  ELSE IF ~authenticated THEN failed("authentication failed")
  ELSE IF ~SignalImported THEN failed("name 'Signal' is not defined")
  ELSE IF ~deliverable THEN failed("signal not delivered")
  ELSE [sent |-> TRUE, title |-> "TOR Identity",
        message |-> "Successfully renewed anonymous identity"]

RenewalOf(c, a, d) ==
  LET r == renew_tor(c, a, d)
  IN [called |-> TRUE, connected |-> c, authenticated |-> a, deliverable |-> d,
      sent |-> r.sent, title |-> r.title, message |-> r.message]

\* the "Renew TOR Identity" menu item exists only with TOR_READY (setup_tray)
RenewMenu(p) == main[p] = "gui_exec" /\ caps.tor

\* renew_tor changes no field of the core
RenewTor(p) ==
  /\ RenewMenu(p)
  /\ UNCHANGED vars

\* renew_tor with its notification kept
RecordedRenew(p) ==
  /\ RenewMenu(p)
  /\ \E c \in (IF RelayListening THEN BOOLEAN ELSE {FALSE}) :
       \E a \in (IF c THEN BOOLEAN ELSE {FALSE}) :
         \E d \in (IF a THEN BOOLEAN ELSE {FALSE}) :
           Answer(NoAnalysis, RenewalOf(c, a, d), <<>>)

\* what psutil.process_iter yields to a scan made on demand
DemandLists ==
  UNION {{[i \in 1..n |-> Entry(i, r[i])] : r \in [1..n -> Readings]} :
           n \in 0..MaxDemandLen}

\* run_scan: threats = self.core.security_scan(); show_message(...)
RunScan(p) ==
  /\ main[p] = "gui_exec"
  /\ UNCHANGED vars

\* run_scan with its notification kept
RecordedDemandScan(p) ==
  /\ main[p] = "gui_exec"
  /\ \E procs \in DemandLists :
       Answer(NoAnalysis, NoRenewal, security_scan(procs).result)

\* security_scan called on an existing core by any caller, its answer kept
DirectScan(p, k) ==
  /\ main[p] \notin {"off", "exited"}
  /\ loop[p][k] # "none"
  /\ \E procs \in DemandLists :
       Answer(NoAnalysis, NoRenewal, security_scan(procs).result)

\* ------------------------------------------------------------ specifications
Next ==
  \/ \E p \in Procs, cli \in BOOLEAN : Launch(p, cli)
  \/ \E p \in Procs : Bind(p)
  \/ \E p \in Procs : Select(p)
  \/ \E p \in Procs : GuiInit(p)
  \/ \E p \in Procs : GuiInitFails(p)
  \/ \E p \in Procs : GuiExecFails(p)
  \/ \E p \in Procs : CliMain(p)
  \/ \E p \in Procs : CliReturn(p)
  \/ \E p \in Procs : KeyboardInterrupt(p)
  \/ \E p \in Procs : ShowStatus(p)
  \/ \E p \in Procs : RunAnalysis(p)
  \/ \E p \in Procs : RenewTor(p)
  \/ \E p \in Procs : RunScan(p)
  \/ \E p \in Procs : CleanExit(p)
  \/ \E p \in Procs : GuiExit(p)
  \/ \E p \in Procs, k \in Cores : StartTor(p, k)
  \/ \E p \in Procs, k \in Cores : Check(p, k)
  \/ \E p \in Procs, k \in Cores : Scan(p, k)
  \/ \E p \in Procs, k \in Cores : Wake(p, k)
  \/ \E p \in Procs, k \in Cores : RelayDies(p, k)

Spec == Init /\ [][Next]_vars

\* One agent started with --cli, at the point where cli_main has built its core
\* and entered run(); every enumeration its loop scans is recorded.
InitScan ==
  /\ caps \in [ai : BOOLEAN, tor : BOOLEAN, gui : BOOLEAN]
  /\ bound = {1}
  /\ main = [p \in Procs |-> IF p = 1 THEN "cli_run" ELSE "off"]
  /\ cliArg = [p \in Procs |-> p = 1]
  /\ exitCode = [p \in Procs |-> -1]
  /\ iface = [p \in Procs |-> IF p = 1 THEN <<"cli">> ELSE <<>>]
  /\ loop = [PerCore("none") EXCEPT ![1]["cli"] = "start_tor"]
  /\ running = [PerCore(FALSE) EXCEPT ![1]["cli"] = TRUE]
  /\ tor_process = PerCore("None")
  /\ relay = PerCore("none")
  /\ torResult = PerCore("none")
  /\ threats = PerCore(<<>>)
  /\ warned = PerCore(<<>>)
  /\ scanErr = PerCore(FALSE)
  /\ graceful = PerCore(FALSE)
  /\ stopAt = PerCore("none")
  /\ scanAfterStop = PerCore(FALSE)
  /\ shown = [p \in Procs |-> <<>>]
  /\ snapshot = <<>>
  /\ ObsInit

NextScan ==
  \/ StartTor(1, "cli")
  \/ Check(1, "cli")
  \/ RecordedScan(1, "cli")
  \/ Wake(1, "cli")
  \/ KeyboardInterrupt(1)
  \/ CliReturn(1)
  \/ RelayDies(1, "cli")

SpecScan == InitScan /\ [][NextScan]_vars

\* ------------------------------------------- security_scan, entry by entry
\* what the entries yield in the scans followed entry by entry
ScanReadings == {r \in Readings : r.kind # "denied" /\ r.cpu # CPU_THRESHOLD}

\* the core both callers scan with: the GUI's
ScanCore == "gui"

\* the caller of scan s is at its call of security_scan
CallerIn(s) ==
  IF s = "loop"
    THEN loop[1][ScanCore] = "scan" /\ ThreadAlive(1, ScanCore)
    ELSE main[1] = "gui_exec"

SharedAccumulator(s) == "loop"

\* threats = []: the list is a local of the call, one per call
Accumulator(s) == s

\* security_scan is entered: threats = []
BeginScan(s) ==
  /\ spc[s] = "idle"
  /\ CallerIn(s)
  /\ spc' = [spc EXCEPT ![s] = "iterating"]
  /\ collected' = [collected EXCEPT ![Accumulator(s)] = <<>>]
  /\ seen' = [seen EXCEPT ![s] = <<>>]
  /\ UNCHANGED <<prog, analysis, renewal, demand, returned>>

\* one round of the for loop: process_iter yields the next entry, which is
\* skipped, compared with the threshold, or raises out of the loop
NextEntry(s) ==
  /\ spc[s] = "iterating"
  /\ CallerIn(s)
  /\ Len(seen[s]) < MaxDemandLen
  /\ \E r \in ScanReadings :
       LET e == Entry(Len(seen[s]) + 1, r)
           a == Accumulator(s)
       IN /\ seen' = [seen EXCEPT ![s] = Append(@, e)]
          /\ IF Skipped(e.kind)
               THEN UNCHANGED <<collected, spc>>
             ELSE IF e.kind # "ok"
               THEN /\ collected' = [collected EXCEPT ![a] = OnScanError(@).threats]
                    /\ spc' = [spc EXCEPT ![s] = "returning"]
             ELSE /\ collected' = [collected EXCEPT ![a] =
                                     IF Flagged(e.cpu) THEN Append(@, Finding(e)) ELSE @]
                  /\ UNCHANGED spc
  /\ UNCHANGED <<prog, analysis, renewal, demand, returned>>

\* process_iter is exhausted
EndOfEntries(s) ==
  /\ spc[s] = "iterating"
  /\ CallerIn(s)
  /\ spc' = [spc EXCEPT ![s] = "returning"]
  /\ UNCHANGED <<prog, analysis, renewal, demand, seen, collected, returned>>

\* return threats if threats else [...]: the caller has the list, the local is gone
ReturnScan(s) ==
  /\ spc[s] = "returning"
  /\ CallerIn(s)
  /\ returned' = [returned EXCEPT ![s] = ScanReturn(collected[Accumulator(s)])]
  /\ collected' = [collected EXCEPT ![Accumulator(s)] = <<>>]
  /\ spc' = [spc EXCEPT ![s] = "done"]
  /\ UNCHANGED <<prog, analysis, renewal, demand, seen>>

\* run() has its scan's result: warning if significant, then time.sleep(60)
LoopIteration ==
  /\ spc["loop"] = "done"
  /\ CallerIn("loop")
  /\ loop' = Set2(loop, 1, ScanCore, "sleep")
  /\ spc' = [spc EXCEPT !["loop"] = "idle"]
  /\ seen' = [seen EXCEPT !["loop"] = <<>>]
  /\ returned' = [returned EXCEPT !["loop"] = <<>>]
  /\ UNCHANGED <<caps, bound, main, cliArg, exitCode, iface, running, tor_process,
                 relay, torResult, threats, warned, scanErr, graceful, stopAt,
                 scanAfterStop, shown, snapshot, analysis, renewal, demand, collected>>

\* run_scan has its scan's result: show_message, and the handler returns
ShowScan ==
  /\ spc["demand"] = "done"
  /\ CallerIn("demand")
  /\ spc' = [spc EXCEPT !["demand"] = "idle"]
  /\ seen' = [seen EXCEPT !["demand"] = <<>>]
  /\ returned' = [returned EXCEPT !["demand"] = <<>>]
  /\ UNCHANGED <<prog, analysis, renewal, demand, collected>>

\* The GUI thread runs one handler at a time: none starts inside run_scan.
HandlerFree == spc["demand"] = "idle"

InitInterleave == Init /\ caps.gui

\* One agent in graphical mode, the scans of its loop thread and of its Scan
\* menu item followed entry by entry.
NextInterleave ==
  \/ Launch(1, FALSE)
  \/ Bind(1)
  \/ Select(1)
  \/ GuiInit(1)
  \/ StartTor(1, ScanCore)
  \/ Check(1, ScanCore)
  \/ Wake(1, ScanCore)
  \/ HandlerFree /\ ShowStatus(1)
  \/ HandlerFree /\ CleanExit(1)
  \/ GuiExit(1)
  \/ \E s \in Scanners : BeginScan(s)
  \/ \E s \in Scanners : NextEntry(s)
  \/ \E s \in Scanners : EndOfEntries(s)
  \/ \E s \in Scanners : ReturnScan(s)
  \/ LoopIteration
  \/ ShowScan

SpecInterleave == InitInterleave /\ [][NextInterleave]_vars

\* One agent on every launch path, its handlers' answers kept, and its core's
\* methods also called directly the way an embedding caller would.
NextApi ==
  \/ \E cli \in BOOLEAN : Launch(1, cli)
  \/ Bind(1)
  \/ Select(1)
  \/ GuiInit(1)
  \/ GuiInitFails(1)
  \/ GuiExecFails(1)
  \/ CliMain(1)
  \/ CliReturn(1)
  \/ KeyboardInterrupt(1)
  \/ ShowStatus(1)
  \/ RecordedAnalysis(1)
  \/ RecordedRenew(1)
  \/ RecordedDemandScan(1)
  \/ CleanExit(1)
  \/ GuiExit(1)
  \/ \E k \in Cores : StartTor(1, k)
  \/ \E k \in Cores : Check(1, k)
  \/ \E k \in Cores : Scan(1, k)
  \/ \E k \in Cores : Wake(1, k)
  \/ \E k \in Cores : RelayDies(1, k)
  \/ \E k \in Cores : DirectAnalyze(1, k)
  \/ \E k \in Cores : DirectScan(1, k)
  \/ Forget

SpecApi == Init /\ [][NextApi]_vars

\* ------------------------------------------------- what a scan should return
\* Independent statement of the scanner's result, by selection instead of by
\* the loop of security_scan.
Readable(procs) == \A i \in 1..Len(procs) : procs[i].kind = "ok"

Failing(procs) == {i \in 1..Len(procs) : procs[i].kind = "error"}

Unreadable(procs) == {i \in 1..Len(procs) : procs[i].kind \in {"denied", "gone"}}

Hot(e) == e.kind = "ok" /\ e.cpu > CPU_THRESHOLD

HotEntries(procs) == SelectSeq(procs, Hot)

Described(es) ==
  [i \in 1..Len(es) |-> [msg |-> "High CPU", name |-> es[i].name, pid |-> es[i].pid]]

OrSentinel(found) == IF Len(found) = 0 THEN <<NoThreats>> ELSE found

\* the entries enumerated before the first failing point (all of them if none)
BeforeFailure(procs) ==
  IF Failing(procs) = {} THEN procs
  ELSE SubSeq(procs, 1, (CHOOSE i \in Failing(procs) :
                           \A j \in Failing(procs) : i <= j) - 1)

NumFindings(found) == Cardinality({i \in 1..Len(found) : found[i] # NoThreats})

\* The recorded iteration of the agent of SpecScan has scanned and is asleep.
Scanned == loop[1]["cli"] = "sleep"

\* --------------------------------------------------------------------- C1
\* C1: for every process list whose entries can all be read, security_scan
\* returns one finding for exactly the entries with cpu_percent > 90 (90 itself
\* is not flagged), in enumeration order, and the "No immediate threats
\* detected" sentinel when the list is empty or nothing exceeds the threshold.
C1_ScanFlagsExactlyAboveThreshold ==
  (Scanned /\ Readable(snapshot)) =>
     /\ threats[1]["cli"] = OrSentinel(Described(HotEntries(snapshot)))
     /\ ~scanErr[1]["cli"]

\* a scan of <95, 90, 95> returned the first and the third entry, in that order
C1_Witness ==
  /\ Scanned
  /\ Len(snapshot) = 3
  /\ Readable(snapshot)
  /\ snapshot[1].cpu = 95 /\ snapshot[2].cpu = 90 /\ snapshot[3].cpu = 95
  /\ threats[1]["cli"] = <<Finding(snapshot[1]), Finding(snapshot[3])>>

\* --------------------------------------------------------------------- C2
\* C2: in every state where a core exists, the status show_status reports for
\* the relay is Active if and only if a session handle is held and the relay
\* process is alive.
C2_StatusActiveIffRelayAlive ==
  \A p \in Procs, k \in Cores :
    loop[p][k] # "none" =>
      ((TorStatus(p, k) = "Active") <=>
         (tor_process[p][k] # "None" /\ relay[p][k] = "alive"))

\* --------------------------------------------------------------------- C3
\* C3: when clean_exit cleared running while run() was in its sleep, run()
\* starts no further scan, logs "Agent stopped gracefully" and returns: at the
\* step that ends the process, the loop stopped in its sleep has returned.
C3_StopDuringSleepReturns ==
  [][\A p \in Procs :
       (stopAt[p]["gui"] = "sleep" /\ main[p] # "exited" /\ main'[p] = "exited")
         => /\ loop[p]["gui"] = "done"
            /\ graceful[p]["gui"]
            /\ ~scanAfterStop[p]["gui"]]_vars

\* --------------------------------------------------------------------- C4
\* C4: at process exit no relay process launched by the agent is still running
\* (the stop sequence terminates the relay before the guard is released).
C4_NoRelayOutlivesExit ==
  \A p \in Procs, k \in Cores : main[p] = "exited" => relay[p][k] # "alive"

\* --------------------------------------------------------------------- C5
\* C5: at most one process holds the bound endpoint at any time; a bind
\* attempted while another process holds it ends that process with the
\* "already running" error, and a bind attempted while nobody holds it (never
\* held, or released by the holder's exit) succeeds.
C5_InstanceGuardMutex ==
  /\ [](Cardinality(bound) <= 1)
  /\ [][\A p \in Procs :
          (main[p] = "bind" /\ main'[p] # "bind") =>
             IF bound \ {p} # {}
               THEN main'[p] = "exited" /\ exitCode'[p] = 1 /\ p \notin bound'
               ELSE main'[p] = "select" /\ p \in bound']_vars

\* a second agent holds the guard after the first one has exited normally
C5_Witness ==
  \E p, q \in Procs :
    /\ main[p] = "exited" /\ exitCode[p] = 0
    /\ q \in bound /\ main[q] \in {"gui_exec", "cli_run"}

\* --------------------------------------------------------------------- C6
\* C6: a process whose bind fails exits with status 1 having started no relay,
\* no loop and no interface; and a process that has entered an interface, whose
\* loop is active or that holds a relay handle, holds the instance guard.
C6_NothingStartsWithoutGuard ==
  /\ [](\A p \in Procs :
          (\/ main[p] \in {"gui_init", "gui_exec", "gui_quit", "cli_main", "cli_run"}
           \/ \E k \in Cores : \/ loop[p][k] # "none"
                               \/ tor_process[p][k] # "None")
            => p \in bound)
  /\ [][\A p \in Procs :
          (exitCode[p] # 1 /\ exitCode'[p] = 1) =>
             /\ main[p] = "bind" /\ main'[p] = "exited"
             /\ iface[p] = <<>>
             /\ \A k \in Cores : /\ loop[p][k] = "none"
                                 /\ torResult[p][k] = "none"
                                 /\ relay[p][k] = "none"]_vars

\* one agent is scanning with its relay up while a second one was turned away
C6_Witness ==
  \E p, q \in Procs, k \in Cores :
    /\ exitCode[q] = 1
    /\ loop[p][k] = "scan" /\ relay[p][k] = "alive" /\ p \in bound

\* --------------------------------------------------------------------- C7
\* C7: in a loop iteration, all findings are logged at warning level whenever
\* the scan produced at least one finding (exactly one included), and nothing is
\* logged at warning level when it produced none.
C7_WarnsWheneverFindings ==
  Scanned =>
    IF NumFindings(threats[1]["cli"]) > 0
      THEN warned[1]["cli"] = threats[1]["cli"]
      ELSE warned[1]["cli"] = <<>>

\* --------------------------------------------------------------------- C8
\* C8: a relay start that fails (launch error, timeout, or no stem library)
\* returns False into run() without raising, stores no session handle, so the
\* status stays Inactive, and run() goes on to its loop, whose next step with
\* running still set is a scan.
StartFailed(p, k) == torResult[p][k] \in {"failed", "unavailable"}

C8_FailedStartLeavesInactive ==
  /\ [](\A p \in Procs, k \in Cores :
          StartFailed(p, k) =>
            /\ tor_process[p][k] = "None"
            /\ relay[p][k] = "none"
            /\ TorStatus(p, k) = "Inactive")
  /\ [][\A p \in Procs, k \in Cores :
          /\ (~StartFailed(p, k) /\ StartFailed(p, k)') =>
                (loop[p][k] = "start_tor" /\ loop'[p][k] = "check"
                   /\ running'[p][k] = running[p][k])
          /\ (StartFailed(p, k) /\ loop[p][k] = "check" /\ running[p][k]
                /\ loop'[p][k] # "check" /\ main'[p] # "exited") =>
                (loop'[p][k] = "scan" \/ (k = "cli" /\ loop'[p][k] = "raised"))]_vars

\* after a failed start the loop has scanned and is asleep, still unprotected
C8_Witness ==
  \E p \in Procs, k \in Cores :
    /\ caps.tor
    /\ torResult[p][k] = "failed"
    /\ loop[p][k] = "sleep"
    /\ tor_process[p][k] = "None"

\* --------------------------------------------------------------------- C9
\* C9: entries whose inspection raises AccessDenied or NoSuchProcess yield no
\* finding and do not fail the scan; every other entry, before and after them,
\* is still compared with the threshold.
C9_UnreadableEntriesSkipped ==
  (Scanned /\ Unreadable(snapshot) # {} /\ Failing(snapshot) = {}) =>
     /\ ~scanErr[1]["cli"]
     /\ threats[1]["cli"] = OrSentinel(Described(HotEntries(snapshot)))

\* <95, denied, 95>: the entries around the unreadable one are both reported
C9_Witness ==
  /\ Scanned
  /\ Len(snapshot) = 3
  /\ snapshot[1].kind = "ok" /\ snapshot[1].cpu = 95
  /\ snapshot[2].kind = "denied"
  /\ snapshot[3].kind = "ok" /\ snapshot[3].cpu = 95
  /\ threats[1]["cli"] = <<Finding(snapshot[1]), Finding(snapshot[3])>>
  /\ ~scanErr[1]["cli"]

\* -------------------------------------------------------------------- C10
\* C10 as stated: a scan whose enumeration raises, at any point, returns no
\* findings (the sentinel alone), logs the cause, and the loop goes on.
C10_FailedScanReturnsNothing ==
  (Scanned /\ Failing(snapshot) # {}) =>
     /\ threats[1]["cli"] = <<NoThreats>>
     /\ scanErr[1]["cli"]

\* C10 amended: a scan whose enumeration raises returns the findings collected
\* before the failing point (the sentinel if there were none) and logs the
\* cause; it does not raise into the loop: the iteration arrives at its sleep
\* with running as it was.
C10_FailedScanReturnsCollected ==
  /\ []((Scanned /\ Failing(snapshot) # {}) =>
          /\ threats[1]["cli"] =
               OrSentinel(Described(HotEntries(BeforeFailure(snapshot))))
          /\ scanErr[1]["cli"])
  /\ [][(loop[1]["cli"] = "scan" /\ Failing(snapshot') # {}) =>
          (loop'[1]["cli"] = "sleep" /\ running'[1]["cli"] = running[1]["cli"])]_vars

\* <95, error, 95>: the first entry is reported, the third was never reached
C10_Witness ==
  /\ Scanned
  /\ Len(snapshot) = 3
  /\ snapshot[1].kind = "ok" /\ snapshot[1].cpu = 95
  /\ snapshot[2].kind = "error"
  /\ snapshot[3].kind = "ok" /\ snapshot[3].cpu = 95
  /\ threats[1]["cli"] = <<Finding(snapshot[1])>>
  /\ scanErr[1]["cli"]

\* ------------------------------------------------------------------ C11-C13
UnavailableResult ==
  [status |-> "error", message |-> "AI engine not available", backend |-> "none",
   logged |-> FALSE]

\* C11: while the classification capability is absent, ai_analyze answers every
\* text, whatever the backend would have done, with the fixed "AI engine not
\* available" error, and no backend operation (pipeline construction or call)
\* is reached.
C11_UnavailableWithoutCapability ==
  ~caps.ai =>
    /\ \A text \in Texts, o \in BackendOutcomes : ai_analyze(text, o) = UnavailableResult
    /\ analysis.called =>
         /\ analysis.status = "error"
         /\ analysis.message = "AI engine not available"
         /\ analysis.backend = "none"

C11_Witness ==
  /\ ~caps.ai
  /\ analysis.called
  /\ analysis.text = "free bitcoin"
  /\ analysis.outcome = "LABEL_1"
  /\ analysis.status = "error"

BackendFailures == {"construct_fails", "call_fails"}

\* C12: with the classification capability present, a backend failure on
\* construction or on the call is answered with an error result whose message
\* is the cause, is logged, and the call returns to its caller; no
\* classification call changes the running flag, the relay handle, the loop
\* or the foreground of the agent.
C12_BackendFailureBecomesError ==
  /\ [](caps.ai /\ analysis.called /\ analysis.outcome \in BackendFailures =>
          /\ analysis.status = "error"
          /\ analysis.message = Cause(analysis.outcome)
          /\ analysis.logged)
  /\ [][analysis'.called /\ analysis' # analysis =>
          /\ running' = running
          /\ tor_process' = tor_process
          /\ loop' = loop
          /\ main' = main
          /\ exitCode' = exitCode]_vars

C12_Witness ==
  /\ caps.ai
  /\ analysis.called
  /\ analysis.outcome = "construct_fails"
  /\ analysis.status = "error"
  /\ analysis.message = "model could not be loaded"
  /\ main[1] = "gui_exec"

\* C13 (refuted by the code): a renewal whose connection, authentication and
\* signal delivery would all succeed is answered with the success notice and
\* the signal is sent.
C13_RenewalSucceedsWhenAllSucceed ==
  renewal.called /\ renewal.connected /\ renewal.authenticated /\ renewal.deliverable =>
    renewal.sent /\ renewal.title = "TOR Identity"

\* ---------------------------------------------------------------------- C14
NoCapability == ~caps.ai /\ ~caps.tor /\ ~caps.gui

\* what security_scan may return: at least one line, each a finding or the
\* sentinel
ValidResult(r) ==
  /\ Len(r) >= 1
  /\ \A i \in 1..Len(r) :
       \/ r[i] = NoThreats
       \/ r[i].msg = "High CPU" /\ r[i].pid \in 1..MaxLen /\ r[i].name \in {"python", "tor"}

\* the launcher reaches an interface and the interface enters run()
StartsUp ==
  /\ main[1] = "select" /\ main'[1] # "select" => main'[1] \in {"gui_init", "cli_main"}
  /\ main[1] = "gui_init" /\ main'[1] # "gui_init" =>
       \/ main'[1] = "gui_exec" /\ loop'[1]["gui"] = "start_tor" /\ running'[1]["gui"]
       \/ main'[1] = "cli_main"
  /\ main[1] = "cli_main" /\ main'[1] # "cli_main" =>
       main'[1] = "cli_run" /\ loop'[1]["cli"] = "start_tor" /\ running'[1]["cli"]

\* while the process lives and nobody stops the loop, run() goes from the relay
\* start to the loop and round it: check, scan, sleep, check
KeepsScanning(k) ==
  main'[1] # "exited" /\ loop'[1][k] # loop[1][k] =>
    /\ loop[1][k] = "start_tor" => loop'[1][k] \in {"check", "raised"}
    /\ loop[1][k] = "check" /\ running[1][k] => loop'[1][k] \in {"scan", "raised"}
    /\ loop[1][k] = "scan" =>
         loop'[1][k] = "sleep" \/ (loop'[1][k] = "check" /\ ~running'[1][k])
    /\ loop[1][k] = "sleep" => loop'[1][k] = "check"
    /\ loop'[1][k] = "raised" => loop[1][k] \in {"start_tor", "check"} /\ k = "cli"
    /\ loop'[1][k] = "done" => loop[1][k] = "check" /\ ~running[1][k]

\* C14: whichever of the three capabilities are present, the launcher reaches
\* an interface whose core enters run(); the loop goes round check, scan,
\* sleep until it is stopped or interrupted; a scan made on demand answers
\* with a valid sequence; and with no capability present the status lines of
\* every core read TOR Inactive and AI Unavailable.
C14_WorksWithAnyCapabilities ==
  /\ [](/\ demand # <<>> => ValidResult(demand)
        /\ NoCapability =>
             \A k \in Cores : TorStatus(1, k) = "Inactive" /\ AiStatus = "Unavailable"
        /\ main[1] = "gui_exec" => loop[1]["gui"] # "none"
        /\ main[1] = "cli_run" => loop[1]["cli"] # "none")
  /\ [][StartsUp /\ \A k \in Cores : KeepsScanning(k)]_vars

C14_Witness ==
  /\ NoCapability
  /\ main[1] = "cli_run"
  /\ loop[1]["cli"] = "sleep"
  /\ torResult[1]["cli"] = "unavailable"
  /\ running[1]["cli"]
  /\ demand # <<>>
  /\ demand # <<NoThreats>>

\* ------------------------------------------------------- C15, C16, C18, C19
\* C15: in one execution of run() the relay start is entered only on entry to
\* run(), its outcome is settled before the first scan and never changes
\* afterwards, and after a failed start the loop goes on scanning with no
\* relay handle.
C15_RelayStartAttemptedOnce ==
  /\ [](\A p \in Procs, k \in Cores :
          /\ loop[p][k] \in {"scan", "sleep", "done"} => torResult[p][k] # "none"
          /\ torResult[p][k] \in {"failed", "unavailable"} => tor_process[p][k] = "None")
  /\ [][\A p \in Procs, k \in Cores :
          /\ loop'[p][k] = "start_tor" /\ loop[p][k] # "start_tor" => loop[p][k] = "none"
          /\ torResult[p][k] # "none" /\ main'[p] # "exited" =>
               /\ torResult'[p][k] = torResult[p][k]
               /\ loop'[p][k] # "start_tor"
          /\ torResult[p][k] = "failed" /\ loop[p][k] = "check" /\ running[p][k]
               /\ loop'[p][k] # "check" /\ main'[p] # "exited" =>
               loop'[p][k] \in {"scan", "raised"}]_vars

C15_Witness ==
  \E p \in Procs :
    /\ torResult[p]["cli"] = "failed"
    /\ loop[p]["cli"] = "sleep"
    /\ tor_process[p]["cli"] = "None"
    /\ running[p]["cli"]

\* C16 (refuted by the code): when the stop is requested while the relay start
\* or a scan is in progress, run() has returned, and has started no scan after
\* the request, by the time the process ends.
C16_StopObservedInEveryPhase ==
  [][\A p \in Procs :
       main[p] = "gui_quit" /\ main'[p] = "exited"
         /\ stopAt[p]["gui"] \in {"start_tor", "scan"} =>
       loop[p]["gui"] = "done" /\ graceful[p]["gui"] /\ ~scanAfterStop[p]["gui"]]_vars

\* C18: the running flag is true when the core is constructed; once false it
\* is never true again while the core exists; and a run() that has returned
\* stays returned, so that core starts no scan again.
C18_RunningFlagMonotonic ==
  /\ [](\A p \in Procs, k \in Cores : loop[p][k] = "done" => ~running[p][k])
  /\ [][\A p \in Procs, k \in Cores :
          /\ loop[p][k] = "none" /\ loop'[p][k] # "none" => running'[p][k]
          /\ loop[p][k] # "none" /\ ~running[p][k] /\ loop'[p][k] # "none" =>
               ~running'[p][k]
          /\ loop[p][k] = "done" /\ main'[p] # "exited" => loop'[p][k] = "done"]_vars

C18_Witness ==
  \E p \in Procs :
    /\ main[p] = "gui_quit"
    /\ stopAt[p]["gui"] = "sleep"
    /\ loop[p]["gui"] = "done"
    /\ ~running[p]["gui"]

\* C19 (refuted by the code): no process has more than one core inside run()
\* at a time.
C19_OneLoopPerProcess ==
  \A p \in Procs : Cardinality({k \in Cores : loop[p][k] \in ActiveLoop}) <= 1

\* ---------------------------------------------------------------------- C17
\* C17: however the scan of the loop thread and a scan made on demand
\* interleave, what each returns is what security_scan computes from the
\* entries that scan itself enumerated, and no step of a scan changes the
\* running flag or the relay handle.
C17_InterleavedScansIndependent ==
  /\ [](\A s \in Scanners :
          spc[s] = "done" => returned[s] = security_scan(seen[s]).result)
  /\ [][(spc' # spc \/ seen' # seen \/ collected' # collected \/ returned' # returned) =>
          running' = running /\ tor_process' = tor_process]_vars

C17_Witness ==
  /\ spc["loop"] = "iterating"
  /\ seen["loop"] # <<>>
  /\ collected["loop"] # <<>>
  /\ spc["demand"] = "done"
  /\ Len(seen["demand"]) >= 2
  /\ seen["demand"][1].cpu > CPU_THRESHOLD
  /\ seen["demand"][2].kind = "error"
  /\ Len(returned["demand"]) = 1

====
